---- MODULE Spec2Model ----
(***************************************************************************)
(* The batch-inference service of src/app.py as a state machine: the       *)
(* artifacts loaded at import time, the upload folder, every client's      *)
(* (cookie-held) Flask session, the predict, download and login requests   *)
(* in flight, and the endpoints predict, download, login, logout and       *)
(* dashboard.                                                              *)
(*                                                                         *)
(* Representation.                                                         *)
(*   - A Python value that may be None is <<>> (None) or <<v>> (a value).  *)
(*   - A string (a file name, a column name, the content of a file) is a   *)
(*     sequence of one-character strings, one per byte.                    *)
(*   - A pandas DataFrame is column oriented, as in pandas:                *)
(*     [columns |-> names in order, n |-> row count, col |-> name -> data]. *)
(***************************************************************************)
EXTENDS Integers, Sequences, FiniteSets, TLC

VARIABLES model, target_cols, feature_cols, clock, files, cookie, req, dl, lg, last, resp

vars == <<model, target_cols, feature_cols, clock, files, cookie, req, dl, lg, last, resp>>

\* ------------------------------------------------------------------ bounds

\* The wall clock runs over the seconds 0..MaxClock of one minute.
MaxClock == 1

\* ------------------------------------------------------------- basic values

None == <<>>

Some(v) == <<v>>

Range(q) == {q[i] : i \in 1..Len(q)}

Index(q, x) == CHOOSE i \in 1..Len(q) : q[i] = x

Sessions == {"s1", "s2"}

\* ------------------------------------------------------------- file names

CsvExt == <<".", "c", "s", "v">>

ALLOWED_EXTENSIONS == {CsvExt}

\* str.lower() on the letters the file names here are made of.
lower(p) == [i \in 1..Len(p) |-> CASE p[i] = "C" -> "c" [] p[i] = "S" -> "s" [] p[i] = "V" -> "v" [] p[i] = "D" -> "d" [] OTHER -> p[i]]

\* os.path.splitext(p)[1] for a name without directory separators: the
\* text from the last dot on, unless only dots precede that dot.
splitext(p) == LET dots == {i \in 1..Len(p) : p[i] = "."} IN IF dots = {} THEN <<>> ELSE LET d == CHOOSE i \in dots : \A j \in dots : j <= i IN IF \A j \in 1..(d - 1) : p[j] = "." THEN <<>> ELSE SubSeq(p, d, Len(p))

allowed_file(filename) == lower(splitext(filename)) \in ALLOWED_EXTENSIONS

\* werkzeug's secure_filename on a name made of ASCII letters, digits, "."
\* and "_": such characters are kept, then "." and "_" are stripped from
\* both ends.
secure_filename(p) == LET keep == {i \in 1..Len(p) : p[i] \notin {".", "_"}} IN IF keep = {} THEN <<>> ELSE LET lo == CHOOSE i \in keep : \A j \in keep : i <= j hi == CHOOSE i \in keep : \A j \in keep : j <= i IN SubSeq(p, lo, hi)

Digit(d) == CASE d = 0 -> "0" [] d = 1 -> "1" [] d = 2 -> "2" [] d = 3 -> "3" [] d = 4 -> "4" [] d = 5 -> "5" [] d = 6 -> "6" [] d = 7 -> "7" [] d = 8 -> "8" [] d = 9 -> "9"

\* datetime.now().strftime("%Y%m%d_%H%M%S") at second t of the minute
\* 2025-01-01 00:00: the result has one-second resolution.
strftime(t) == <<"2", "0", "2", "5", "0", "1", "0", "1", "_", "0", "0", "0", "0">> \o <<Digit(t \div 10), Digit(t % 10)>>

out_name(t) == <<"p", "r", "e", "d", "i", "c", "t", "i", "o", "n", "s", "_">> \o strftime(t) \o CsvExt

\* ---------------------------------------------------------------- CSV text

NL == "\n"

ID == <<"I", "D">>

\* str(v) of a non-negative int.
RECURSIVE str(_)
str(v) == IF v < 10 THEN <<Digit(v)>> ELSE str(v \div 10) \o <<Digit(v % 10)>>

Digits == {Digit(d) : d \in 0..9}

\* int(cell) of a cell made of decimal digits.
RECURSIVE int(_)
int(cell) == IF cell = <<>> THEN 0 ELSE 10 * int(SubSeq(cell, 1, Len(cell) - 1)) + (CHOOSE d \in 0..9 : Digit(d) = cell[Len(cell)])

\* sep.join(cells)
RECURSIVE join(_, _)
join(cells, sep) == IF cells = <<>> THEN <<>> ELSE IF Len(cells) = 1 THEN cells[1] ELSE cells[1] \o <<sep>> \o join(Tail(cells), sep)

\* text.split(sep): the pieces between the separators, in order.
split(text, sep) ==
  LET seps == {i \in 1..Len(text) : text[i] = sep}
      cut(k) == IF k = 0 THEN 0 ELSE IF k = Cardinality(seps) + 1 THEN Len(text) + 1 ELSE CHOOSE i \in seps : Cardinality({j \in seps : j < i}) = k - 1
  IN [k \in 1..(Cardinality(seps) + 1) |-> SubSeq(text, cut(k - 1) + 1, cut(k) - 1)]

RECURSIVE concat(_)
concat(texts) == IF texts = <<>> THEN <<>> ELSE texts[1] \o concat(Tail(texts))

\* One line of CSV text.
Line(cells) == join(cells, ",") \o <<NL>>

\* ------------------------------------------------------------- data frames

\* pd.read_csv(path) on the bytes the file holds. Blank lines are skipped;
\* the first line left is the header; a file without one raises
\* EmptyDataError (None). The files here have distinct header cells and
\* data rows as wide as the header, made of decimal integers; a row of
\* another width or with another cell is taken to raise (pandas raises
\* ParserError on a wider row).
read_csv(bytes) ==
  LET lines == SelectSeq(split(bytes, NL), LAMBDA l : l # <<>>)
  IN IF lines = <<>> THEN None
     ELSE LET cols == split(lines[1], ",")
              n == Len(lines) - 1
              rows == [r \in 1..n |-> split(lines[r + 1], ",")]
              wellFormed == \A r \in 1..n : Len(rows[r]) = Len(cols) /\ \A i \in 1..Len(cols) : rows[r][i] # <<>> /\ Range(rows[r][i]) \subseteq Digits
          IN IF ~wellFormed THEN None
             ELSE Some([columns |-> cols, n |-> n, col |-> [c \in Range(cols) |-> [r \in 1..n |-> int(rows[r][Index(cols, c)])]]])

\* df.drop(columns=[name], errors="ignore")
drop(df, name) == LET cols == SelectSeq(df.columns, LAMBDA c : c # name) IN [columns |-> cols, n |-> df.n, col |-> [c \in Range(cols) |-> df.col[c]]]

\* X[cols]: None when it raises KeyError.
Select(X, cols) == IF Range(cols) \subseteq Range(X.columns) THEN Some([columns |-> cols, n |-> X.n, col |-> [c \in Range(cols) |-> X.col[c]]]) ELSE None

\* The positional array of a frame (what the model is given): row r, column i.
values(X) == [r \in 1..X.n |-> [i \in 1..Len(X.columns) |-> X.col[X.columns[i]][r]]]

\* pd.DataFrame(preds, columns=cols) for an n-row array.
DataFrame(preds, cols) == [columns |-> cols, n |-> Len(preds), col |-> [c \in Range(cols) |-> [r \in 1..Len(preds) |-> preds[r][Index(cols, c)]]]]

\* pred_df.insert(0, name, vals)
insert0(df, name, vals) == [columns |-> <<name>> \o df.columns, n |-> df.n, col |-> [c \in Range(df.columns) \cup {name} |-> IF c = name THEN vals ELSE df.col[c]]]

\* pred_df.to_csv(path, index=False): the bytes written.
to_csv(df) == Line(df.columns) \o concat([r \in 1..df.n |-> Line([i \in 1..Len(df.columns) |-> str(df.col[df.columns[i]][r])])])

\* ------------------------------------------------------------ the artifacts

\* Lines 29-43: the three artifacts are unpickled in order inside one try;
\* the first that cannot be read leaves the later names at None. The
\* feature-column artifact is read only if its file exists.
LoadArtifacts(m, t, f) ==
  IF m = None THEN [model |-> None, target_cols |-> None, feature_cols |-> None]
  ELSE IF t = None THEN [model |-> m, target_cols |-> None, feature_cols |-> None]
  ELSE [model |-> m, target_cols |-> t, feature_cols |-> f]

x1 == <<"x", "1">>

x2 == <<"x", "2">>

x3 == <<"x", "3">>

y == <<"y">>

ModelArtifacts == {None, Some([n_features_in_ |-> None]), Some([n_features_in_ |-> Some(2)])}

TargetArtifacts == {None, Some(<<y>>)}

FeatureArtifacts == {None, Some(<<x1, x2>>)}

Registries == {LoadArtifacts(m, t, f) : m \in ModelArtifacts, t \in TargetArtifacts, f \in FeatureArtifacts}

RECURSIVE WSum(_, _)
WSum(row, i) == IF i = 0 THEN 0 ELSE i * row[i] + WSum(row, i - 1)

\* The fitted model is an opaque artifact (model.pkl): one output row per
\* input row, one output column per target. The value is a position-weighted
\* sum, so that the order of the input columns matters.
ModelPredict(arr, k) == [r \in 1..Len(arr) |-> [j \in 1..k |-> WSum(arr[r], Len(arr[r])) + (j - 1)]]

\* model.predict raises when the estimator knows its input width and the
\* array has another, or when the opaque estimator fails on the input
\* (the request's input "raises").
ModelRaises(m, X, raises) == raises \/ (m.n_features_in_ # None /\ m.n_features_in_[1] # Len(X.columns))

\* ------------------------------------------------------------ the pipeline

\* Line 139, "if feature_cols:": None and the empty list are both falsy.
HasFeatureCols == feature_cols # None /\ feature_cols[1] # <<>>

\* Line 140: the expected columns the working table lacks, in registry order.
Missing(X) == SelectSeq(feature_cols[1], LAMBDA c : c \notin Range(X.columns))

\* Lines 145-146: getattr(model, "n_features_in_", None) is truthy and
\* differs from the number of columns.
CountMismatch(expected, actual) == expected # None /\ expected[1] # 0 /\ actual # expected[1]

Result(kind, X, calls, pred, missing, count) == [kind |-> kind, X |-> X, calls |-> calls, pred |-> pred, missing |-> missing, count |-> count]

NoResult(kind) == Result(kind, None, 0, None, <<>>, <<>>)

\* Lines 149-152: invoke the model on X and recompose the prediction table.
Recompose(X, ids) ==
  LET pred_df == DataFrame(ModelPredict(values(X), Len(target_cols[1])), target_cols[1])
  IN IF ids # None THEN insert0(pred_df, ID, ids[1]) ELSE pred_df

InvokeIgnoringErrors(X, ids, raises) == Result("Ready", Some(X), 1, Some(Recompose(X, ids)), <<>>, <<>>)

Invoke(X, ids, raises) ==
  IF ModelRaises(model[1], X, raises)
  THEN Result("InferenceError", Some(X), 1, None, <<>>, <<>>)
  ELSE Result("Ready", Some(X), 1, Some(Recompose(X, ids)), <<>>, <<>>)

\* Lines 139-147: feature alignment, then the model.
Align(X, ids, raises) ==
  IF HasFeatureCols
  THEN IF Missing(X) # <<>>
       THEN Result("MissingFeatures", None, 0, None, Missing(X), <<>>)
       ELSE IF Select(X, feature_cols[1]) = None
            THEN NoResult("AlignError")
            ELSE Invoke(Select(X, feature_cols[1])[1], ids, raises)
  ELSE IF CountMismatch(model[1].n_features_in_, Len(X.columns))
       THEN Result("FeatureCountMismatch", None, 0, None, <<>>, <<model[1].n_features_in_[1], Len(X.columns)>>)
       ELSE Invoke(X, ids, raises)

\* Lines 135-137: parse the bytes read from filepath, split the "ID"
\* column off.
Parse(bytes, raises) ==
  LET df == read_csv(bytes)
  IN IF df = None
     THEN NoResult("ParseError")
     ELSE Align(drop(df[1], ID), IF ID \in Range(df[1].columns) THEN Some(df[1].col[ID]) ELSE None, raises)

\* Lines 117-128: the checks before the try block; "Pass" when the request
\* reaches line 130.
Gate(method, upload) ==
  IF method = "GET" THEN "Form"
  ELSE IF upload = None THEN "NoFile"
  ELSE IF upload[1].filename = <<>> \/ ~allowed_file(upload[1].filename) THEN "UnsupportedFormat"
  ELSE IF model = None \/ target_cols = None THEN "ModelNotLoaded"
  ELSE "Pass"

\* ------------------------------------------------------------------ state

NoCookie == [user |-> FALSE, ptr |-> None]

\* A predict request in flight: where it is (pc), the session it arrived
\* with, its inputs, from line 153 on the outcome of lines 135-152, and
\* from line 156 on the output file name.
Idle == [pc |-> "idle", sess |-> NoCookie, upload |-> None, raises |-> FALSE, att |-> None, out |-> <<>>]

\* A download request in flight: the file name it read from its session.
NoDownload == [pc |-> "idle", name |-> <<>>]

\* A login request in flight: the session it arrived with.
NoLogin == [pc |-> "idle", sess |-> NoCookie]

NoLast == [sid |-> "", kind |-> "None", authed |-> FALSE, upload |-> None, raises |-> FALSE, X |-> None, calls |-> 0, pred |-> None, missing |-> <<>>, count |-> <<>>, wrote |-> FALSE, out |-> <<>>]

NoResp == [sid |-> "", ep |-> "", status |-> 0, body |-> <<>>]

\* The record of a finished predict request (history, for the properties).
Done(s, sess, upload, raises, a, wrote, out) == [sid |-> s, kind |-> a.kind, authed |-> sess.user, upload |-> upload, raises |-> raises, X |-> a.X, calls |-> a.calls, pred |-> a.pred, missing |-> a.missing, count |-> a.count, wrote |-> wrote, out |-> out]

Put(f, n, b) == [x \in DOMAIN f \cup {n} |-> IF x = n THEN b ELSE f[x]]

Remove(f, n) == [x \in DOMAIN f \ {n} |-> f[x]]

\* A write of data at offset 0 of an open file: the bytes the file holds
\* beyond them stay.
WriteAt0(b, data) == data \o SubSeq(b, Len(data) + 1, Len(b))

\* The files some request holds open: an upload being saved, a result
\* being written, a result being sent.
OpenFiles == {secure_filename(req[s].upload[1].filename) : s \in {t \in Sessions : req[t].pc = "save"}} \cup {req[s].out : s \in {t \in Sessions : req[t].pc = "write"}} \cup {dl[s].name : s \in {t \in Sessions : dl[t].pc = "read"}}

\* ---------------------------------------------------------------- actions
\* last is the predict request that ended in the latest step and resp the
\* response some other endpoint gave in the latest step (history, for the
\* properties); every other step clears them.

\* predict(), lines 117-133 up to file.save opening filepath for writing:
\* the file is created or truncated in place. A request that fails a check
\* ends here. The request's session is the cookie it arrived with.
PredictBegin(s, method, upload, raises) ==
  /\ req[s].pc = "idle"
  /\ IF Gate(method, upload) = "Pass"
     THEN /\ files' = Put(files, secure_filename(upload[1].filename), <<>>)
          /\ req' = [req EXCEPT ![s] = [pc |-> "save", sess |-> cookie[s], upload |-> upload, raises |-> raises, att |-> None, out |-> <<>>]]
          /\ last' = NoLast
     ELSE /\ last' = Done(s, cookie[s], upload, raises, NoResult(Gate(method, upload)), FALSE, <<>>)
          /\ UNCHANGED <<files, req>>
  /\ resp' = NoResp
  /\ UNCHANGED <<model, target_cols, feature_cols, clock, cookie, dl, lg>>

\* Line 133, file.save copying the upload and closing the file: the upload
\* fits one buffer, so its bytes reach the file in one write at offset 0.
PredictSave(s) ==
  /\ req[s].pc = "save"
  /\ LET filepath == secure_filename(req[s].upload[1].filename)
     IN files' = Put(files, filepath, WriteAt0(files[filepath], req[s].upload[1].bytes))
  /\ req' = [req EXCEPT ![s].pc = "run"]
  /\ last' = NoLast
  /\ resp' = NoResp
  /\ UNCHANGED <<model, target_cols, feature_cols, clock, cookie, dl, lg>>

\* Lines 135-152: read filepath back (whatever it holds by now; a file
\* that is gone raises, as a file that does not parse), align, invoke the
\* model and recompose; nothing shared is read after the file. A request
\* that fails ends here.
PredictRun(s) ==
  /\ req[s].pc = "run"
  /\ LET filepath == secure_filename(req[s].upload[1].filename)
         a == IF filepath \in DOMAIN files THEN Parse(files[filepath], req[s].raises) ELSE NoResult("ParseError")
     IN IF a.kind = "Ready"
        THEN /\ req' = [req EXCEPT ![s].pc = "name", ![s].att = Some(a)]
             /\ last' = NoLast
        ELSE /\ req' = [req EXCEPT ![s] = Idle]
             /\ last' = Done(s, req[s].sess, req[s].upload, req[s].raises, a, FALSE, <<>>)
  /\ resp' = NoResp
  /\ UNCHANGED <<model, target_cols, feature_cols, clock, files, cookie, dl, lg>>

\* Lines 154-156: the clock is read once model.predict has returned, and
\* the output is named after that second.
PredictName(s) ==
  /\ req[s].pc = "name"
  /\ req' = [req EXCEPT ![s].pc = "open", ![s].out = out_name(clock)]
  /\ last' = NoLast
  /\ resp' = NoResp
  /\ UNCHANGED <<model, target_cols, feature_cols, clock, files, cookie, dl, lg>>

\* Line 157, to_csv opening result_path for writing: the file is created
\* or truncated in place.
PersistOpen(s) ==
  /\ req[s].pc = "open"
  /\ files' = Put(files, req[s].out, <<>>)
  /\ req' = [req EXCEPT ![s].pc = "write"]
  /\ last' = NoLast
  /\ resp' = NoResp
  /\ UNCHANGED <<model, target_cols, feature_cols, clock, cookie, dl, lg>>

\* Line 157, to_csv flushing its buffer and closing the file: the table
\* fits the buffer, so its bytes reach the file in one write at offset 0.
PersistWrite(s) ==
  /\ req[s].pc = "write"
  /\ files' = Put(files, req[s].out, WriteAt0(files[req[s].out], to_csv(req[s].att[1].pred[1])))
  /\ req' = [req EXCEPT ![s].pc = "set"]
  /\ last' = NoLast
  /\ resp' = NoResp
  /\ UNCHANGED <<model, target_cols, feature_cols, clock, cookie, dl, lg>>

\* Line 157 raising (an I/O error), caught at line 163: what was written stays.
PersistFail(s) ==
  /\ req[s].pc \in {"open", "write"}
  /\ last' = Done(s, req[s].sess, req[s].upload, req[s].raises, [req[s].att[1] EXCEPT !.kind = "PersistError"], req[s].pc # "open", req[s].out)
  /\ req' = [req EXCEPT ![s] = Idle]
  /\ resp' = NoResp
  /\ UNCHANGED <<model, target_cols, feature_cols, clock, files, cookie, dl, lg>>

\* Lines 158-161: the pointer is set in the request's session, and the
\* response carries that session back to the client as its cookie.
SessionAfter(sess, out) == [sess EXCEPT !.ptr = Some(out)]

PredictFinish(s) ==
  /\ req[s].pc = "set"
  /\ cookie' = [cookie EXCEPT ![s] = SessionAfter(req[s].sess, req[s].out)]
  /\ last' = Done(s, req[s].sess, req[s].upload, req[s].raises, [req[s].att[1] EXCEPT !.kind = "Summarized"], TRUE, req[s].out)
  /\ req' = [req EXCEPT ![s] = Idle]
  /\ resp' = NoResp
  /\ UNCHANGED <<model, target_cols, feature_cols, clock, files, dl, lg>>

\* download(), lines 168-173: 200 stands for going on to line 174.
DownloadStatusSwapped(hadPtr, existed) == IF ~hadPtr THEN 404 ELSE IF ~existed THEN 400 ELSE 200

DownloadStatus(hadPtr, existed) == IF ~hadPtr THEN 400 ELSE IF ~existed THEN 404 ELSE 200

DownloadCheckForgetting(s) ==
  /\ dl[s].pc = "idle"
  /\ LET out == cookie[s].ptr
         hadPtr == out # None /\ out[1] # <<>>
         status == DownloadStatus(hadPtr, hadPtr /\ out[1] \in DOMAIN files)
     IN IF status = 200
        THEN /\ dl' = [dl EXCEPT ![s] = [pc |-> "send", name |-> out[1]]]
             /\ resp' = NoResp
        ELSE /\ resp' = [sid |-> s, ep |-> "download", status |-> status, body |-> <<>>]
             /\ UNCHANGED dl
  /\ last' = NoLast
  /\ cookie' = [cookie EXCEPT ![s].ptr = None]
  /\ UNCHANGED <<model, target_cols, feature_cols, clock, files, req, lg>>

DownloadCheck(s) ==
  /\ dl[s].pc = "idle"
  /\ LET out == cookie[s].ptr
         hadPtr == out # None /\ out[1] # <<>>
         status == DownloadStatus(hadPtr, hadPtr /\ out[1] \in DOMAIN files)
     IN IF status = 200
        THEN /\ dl' = [dl EXCEPT ![s] = [pc |-> "send", name |-> out[1]]]
             /\ resp' = NoResp
        ELSE /\ resp' = [sid |-> s, ep |-> "download", status |-> status, body |-> <<>>]
             /\ UNCHANGED dl
  /\ last' = NoLast
  /\ UNCHANGED <<model, target_cols, feature_cols, clock, files, cookie, req, lg>>

\* Line 174, send_file opening result_path: a file deleted since line 172
\* raises FileNotFoundError, which nothing catches (status 500).
DownloadOpen(s) ==
  /\ dl[s].pc = "send"
  /\ IF dl[s].name \in DOMAIN files
     THEN /\ dl' = [dl EXCEPT ![s].pc = "read"]
          /\ resp' = NoResp
     ELSE /\ dl' = [dl EXCEPT ![s] = NoDownload]
          /\ resp' = [sid |-> s, ep |-> "download", status |-> 500, body |-> <<>>]
  /\ last' = NoLast
  /\ UNCHANGED <<model, target_cols, feature_cols, clock, files, cookie, req, lg>>

\* The response of line 174 being sent: the open file is read (it fits
\* one read) and its bytes are the body.
DownloadRead(s) ==
  /\ dl[s].pc = "read"
  /\ resp' = [sid |-> s, ep |-> "download", status |-> 200, body |-> files[dl[s].name]]
  /\ dl' = [dl EXCEPT ![s] = NoDownload]
  /\ last' = NoLast
  /\ UNCHANGED <<model, target_cols, feature_cols, clock, files, cookie, req, lg>>

\* login(), lines 79-82: a GET is answered with the form; a POST reads its
\* session from the cookie it arrived with and queries the user table.
LoginBegin(s, method) ==
  /\ lg[s].pc = "idle"
  /\ IF method = "GET"
     THEN /\ resp' = [sid |-> s, ep |-> "login", status |-> 200, body |-> <<>>]
          /\ UNCHANGED lg
     ELSE /\ lg' = [lg EXCEPT ![s] = [pc |-> "wait", sess |-> cookie[s]]]
          /\ resp' = NoResp
  /\ last' = NoLast
  /\ UNCHANGED <<model, target_cols, feature_cols, clock, files, cookie, req, dl>>

\* Lines 83-89, once the query has answered: valid credentials put the user
\* into the request's session, and the response carries that session back
\* to the client as its cookie; invalid ones, or a query that raised, leave
\* the cookie alone.
LoginEnd(s, answer) ==
  /\ lg[s].pc = "wait"
  /\ cookie' = IF answer = "valid" THEN [cookie EXCEPT ![s] = [lg[s].sess EXCEPT !.user = TRUE]] ELSE cookie
  /\ resp' = [sid |-> s, ep |-> "login", status |-> CASE answer = "valid" -> 302 [] answer = "invalid" -> 200 [] OTHER -> 500, body |-> <<>>]
  /\ lg' = [lg EXCEPT ![s] = NoLogin]
  /\ last' = NoLast
  /\ UNCHANGED <<model, target_cols, feature_cols, clock, files, req, dl>>

\* logout(), lines 112-114: session.clear(); the response deletes the cookie.
Logout(s) ==
  /\ cookie' = [cookie EXCEPT ![s] = NoCookie]
  /\ last' = NoLast
  /\ resp' = [sid |-> s, ep |-> "logout", status |-> 302, body |-> <<>>]
  /\ UNCHANGED <<model, target_cols, feature_cols, clock, files, req, dl, lg>>

\* dashboard(), lines 93-109: reads the session, changes nothing.
Dashboard(s) ==
  /\ last' = NoLast
  /\ resp' = [sid |-> s, ep |-> "dashboard", status |-> IF cookie[s].user THEN 200 ELSE 302, body |-> <<>>]
  /\ UNCHANGED <<model, target_cols, feature_cols, clock, files, cookie, req, dl, lg>>

\* A second of wall-clock time passes.
Tick ==
  /\ clock < MaxClock
  /\ clock' = clock + 1
  /\ last' = NoLast
  /\ resp' = NoResp
  /\ UNCHANGED <<model, target_cols, feature_cols, files, cookie, req, dl, lg>>

\* A stored result file is deleted out of band (never one a request holds
\* open).
DeleteFile(n) ==
  /\ n \in DOMAIN files
  /\ \E t \in 0..MaxClock : n = out_name(t)
  /\ n \notin OpenFiles
  /\ files' = Remove(files, n)
  /\ last' = NoLast
  /\ resp' = NoResp
  /\ UNCHANGED <<model, target_cols, feature_cols, clock, cookie, req, dl, lg>>

\* ----------------------------------------------------------------- inputs

GoodName == <<"d">> \o CsvExt

\* The text of a CSV file with header h and integer rows.
Csv(h, rows) == Line(h) \o concat([r \in 1..Len(rows) |-> Line([i \in 1..Len(h) |-> str(rows[r][i])])])

\* Two uploads with every expected feature column, and one without "x2";
\* all three are sent under the same file name.
UploadA == Some([filename |-> GoodName, bytes |-> Csv(<<ID, x2, x1>>, <<<<1, 2, 1>>>>)])

UploadA2 == Some([filename |-> GoodName, bytes |-> Csv(<<ID, x2, x1>>, <<<<2, 4, 3>>>>)])

UploadB == Some([filename |-> GoodName, bytes |-> Csv(<<ID, x1, x3>>, <<<<3, 1, 3>>>>)])

UploadTxt == Some([filename |-> <<"d", ".", "t", "x", "t">>, bytes |-> <<>>])

Requests(uploads) == {[method |-> "GET", upload |-> None, raises |-> FALSE]} \cup {[method |-> "POST", upload |-> u, raises |-> FALSE] : u \in uploads}

\* A request on which the model raises.
Raising == [method |-> "POST", upload |-> UploadA, raises |-> TRUE]

\* The requests of the two-client specification: also the file names the
\* format gate and secure_filename tell apart, with an upload without a
\* header line.
PipeRequests == Requests({UploadA, UploadA2, UploadB, UploadTxt} \cup {Some([filename |-> n, bytes |-> <<>>]) : n \in {<<>>, CsvExt, <<"_", "D", ".", "C", "S", "V">>}}) \cup {Raising}

\* The requests of the one-client specification: also no file part.
AuthRequests == Requests({UploadA, UploadTxt, None})

\* ---------------------------------------------------------- specifications

FullRegistry == LoadArtifacts(Some([n_features_in_ |-> Some(2)]), Some(<<y>>), Some(<<x1, x2>>))

Start(registries) ==
  /\ \E r \in registries : model = r.model /\ target_cols = r.target_cols /\ feature_cols = r.feature_cols
  /\ clock = 0
  /\ files = <<>>
  /\ cookie = [s \in Sessions |-> NoCookie]
  /\ req = [s \in Sessions |-> Idle]
  /\ dl = [s \in Sessions |-> NoDownload]
  /\ lg = [s \in Sessions |-> NoLogin]
  /\ last = NoLast
  /\ resp = NoResp

Init == Start({FullRegistry, LoadArtifacts(None, None, None)})

\* One client using every endpoint, its requests overlapping.
Next ==
  \/ \E q \in AuthRequests : PredictBegin("s1", q.method, q.upload, q.raises)
  \/ PredictSave("s1")
  \/ PredictRun("s1")
  \/ PredictName("s1")
  \/ PersistOpen("s1")
  \/ PersistWrite("s1")
  \/ PersistFail("s1")
  \/ PredictFinish("s1")
  \/ DownloadCheck("s1")
  \/ DownloadOpen("s1")
  \/ DownloadRead("s1")
  \/ \E method \in {"GET", "POST"} : LoginBegin("s1", method)
  \/ \E answer \in {"valid", "invalid", "error"} : LoginEnd("s1", answer)
  \/ Logout("s1")
  \/ Dashboard("s1")
  \/ Tick
  \/ \E n \in DOMAIN files : DeleteFile(n)

Spec == Init /\ [][Next]_vars

\* The pipeline on its own: the predict requests of two clients, arriving
\* within one second and overlapping, at a service started with any set of
\* artifacts.
InitPipe == Start(Registries)

NextPipe ==
  \/ \E s \in Sessions, q \in PipeRequests : PredictBegin(s, q.method, q.upload, q.raises)
  \/ \E s \in Sessions : PredictSave(s)
  \/ \E s \in Sessions : PredictRun(s)
  \/ \E s \in Sessions : PredictName(s)
  \/ \E s \in Sessions : PersistOpen(s)
  \/ \E s \in Sessions : PersistWrite(s)
  \/ \E s \in Sessions : PersistFail(s)
  \/ \E s \in Sessions : PredictFinish(s)

SpecPipe == InitPipe /\ [][NextPipe]_vars

\* The result store on its own: the predict requests of two clients with
\* well-formed uploads, overlapping, while seconds pass.
InitStore == Start({FullRegistry})

NextStore ==
  \/ \E s \in Sessions, u \in {UploadA, UploadA2} : PredictBegin(s, "POST", u, FALSE)
  \/ \E s \in Sessions : PredictSave(s)
  \/ \E s \in Sessions : PredictRun(s)
  \/ \E s \in Sessions : PredictName(s)
  \/ \E s \in Sessions : PersistOpen(s)
  \/ \E s \in Sessions : PersistWrite(s)
  \/ \E s \in Sessions : PersistFail(s)
  \/ \E s \in Sessions : PredictFinish(s)
  \/ Tick

SpecStore == InitStore /\ [][NextStore]_vars

\* ------------------------------------------------------------- properties

\* The table the upload of request record l parses to, and that table
\* without its "ID" column (the working table the request should build).
Own(l) == read_csv(l.upload[1].bytes)

Working(l) == drop(Own(l)[1], ID)

\* The request record l is of a POST whose upload parses to a table.
Parsed(l) == l.kind # "None" /\ l.upload # None /\ Own(l) # None

\* C1: with the feature-column list loaded, a predict request whose upload
\* lacks an expected feature column (once "ID" is removed) ends in
\* MissingFeatures (or earlier, at the format gate), never invokes the model
\* and writes no prediction file.
C1_MissingFeaturesAborts ==
  (Parsed(last) /\ HasFeatureCols /\ Missing(Working(last)) # <<>>)
  => /\ last.kind \in {"MissingFeatures", "UnsupportedFormat"}
     /\ last.calls = 0
     /\ ~last.wrote

\* C2: with the feature-column list loaded, the table a request passes to
\* the model, when its upload holds every expected feature column, has
\* exactly the registry's columns in the registry's order, each column
\* holding the values the upload gave under that name, row by row.
C2_AlignedToRegistryOrder ==
  (Parsed(last) /\ HasFeatureCols /\ Missing(Working(last)) = <<>> /\ last.X # None)
  => /\ last.X[1].columns = feature_cols[1]
     /\ last.X[1].n = Own(last)[1].n
     /\ \A c \in Range(feature_cols[1]) : last.X[1].col[c] = Own(last)[1].col[c]

\* C3: the prediction table of a successful predict request has one row per
\* upload row; if the upload has an "ID" column the table's columns are
\* "ID" followed by the target columns and each row's ID is the upload's ID
\* at that row; otherwise its columns are the target columns.
C3_IdentifiersReattached ==
  (Parsed(last) /\ last.kind = "Summarized")
  => /\ last.pred[1].n = Own(last)[1].n
     /\ IF ID \in Range(Own(last)[1].columns)
        THEN /\ last.pred[1].columns = <<ID>> \o target_cols[1]
             /\ last.pred[1].col[ID] = Own(last)[1].col[ID]
        ELSE last.pred[1].columns = target_cols[1]

\* C4: a download answers 400 exactly when its session has no result
\* pointer and 404 exactly when the pointer names a file that does not
\* exist; it goes on to send a file only when the pointer exists and names
\* an existing file, and a 200 answer carries the bytes of that file. (The
\* remaining answer, 500, is given only when the file existed at line 172
\* and was deleted before line 174 opened it.) A download changes neither
\* sessions nor files.
C4_DownloadOutcomes ==
  [][\A s \in Sessions :
       /\ (dl[s].pc = "idle" /\ dl'[s].pc = "send") => (cookie[s].ptr = Some(dl'[s].name) /\ dl'[s].name \in DOMAIN files)
       /\ (resp'.ep = "download" /\ resp'.sid = s)
          => /\ resp'.status \in {200, 400, 404, 500}
             /\ resp'.status = 400 <=> (dl[s].pc = "idle" /\ cookie[s].ptr = None)
             /\ resp'.status = 404 <=> (dl[s].pc = "idle" /\ cookie[s].ptr # None /\ cookie[s].ptr[1] \notin DOMAIN files)
             /\ resp'.status = 200 => (dl[s].pc = "read" /\ resp'.body = files[dl[s].name])
             /\ resp'.status = 500 => (dl[s].pc = "send" /\ dl[s].name \notin DOMAIN files)
             /\ cookie' = cookie /\ files' = files]_vars

C4_Witness ==
  /\ resp.ep = "download"
  /\ resp.status = 404
  /\ cookie[resp.sid].ptr # None
  /\ files # <<>>

\* C5: a predict request of a caller that is not logged in does no work: no
\* model invocation, no result file, no success.
C5_UnauthorizedPredictAborts ==
  (last.kind # "None" /\ ~last.authed) => (last.calls = 0 /\ ~last.wrote /\ last.kind # "Summarized")

\* The complete prediction tables the uploads of the one-client
\* specification can produce.
CompleteTables == {to_csv(Parse(u[1].bytes, FALSE).pred[1]) : u \in {v \in {q.upload : q \in AuthRequests} : v # None /\ Parse(v[1].bytes, FALSE).kind = "Ready"}}

\* C6: the bytes a download returns are those of one complete prediction
\* table.
C6_DownloadSeesCompleteTable ==
  (resp.ep = "download" /\ resp.status = 200) => resp.body \in CompleteTables

\* C7: the file a session's result pointer names is never written by a
\* request of another session: while the pointer names it, its content
\* changes only in a step of a request of that session.
C7_NoContentionBetweenSessions ==
  [][\A s \in Sessions : (/\ cookie[s].ptr # None
                          /\ cookie[s].ptr[1] \in DOMAIN files
                          /\ cookie[s].ptr[1] \in DOMAIN files'
                          /\ files'[cookie[s].ptr[1]] # files[cookie[s].ptr[1]])
     => req'[s] # req[s]]_vars

\* C8 as claimed: a session's pointer changes only in the step that ends a
\* successful predict request of that session, and then names its output.
C8_OnlySuccessfulPredictSetsPointer ==
  [][\A s \in Sessions : cookie'[s].ptr # cookie[s].ptr
     => (last'.sid = s /\ last'.kind = "Summarized" /\ cookie'[s].ptr = Some(last'.out))]_vars

\* C8 amended: a session's pointer changes only in the step that ends a
\* successful predict request of that session, and then names its output;
\* in a logout of that session, which removes it; or in the response to a
\* successful login of that session, which puts back what the pointer was
\* when the login request arrived.
C8_PointerSetByPredictClearedByLogout ==
  [][\A s \in Sessions : cookie'[s].ptr # cookie[s].ptr
     => \/ (last'.sid = s /\ last'.kind = "Summarized" /\ cookie'[s].ptr = Some(last'.out))
        \/ (resp'.sid = s /\ resp'.ep = "logout" /\ cookie'[s].ptr = None)
        \/ (resp'.sid = s /\ resp'.ep = "login" /\ resp'.status = 302 /\ cookie'[s].ptr = lg[s].sess.ptr)]_vars

C8_Witness ==
  /\ last.kind = "Summarized"
  /\ cookie[last.sid].ptr = Some(last.out)
  /\ last.out = out_name(1)
  /\ out_name(0) \in DOMAIN files

Terminal == {"Form", "NoFile", "UnsupportedFormat", "ModelNotLoaded", "ParseError", "MissingFeatures", "FeatureCountMismatch", "InferenceError", "PersistError", "Summarized"}

\* The positions of a predict request in flight, in the order of the code.
Position(pc) == CASE pc = "idle" -> 0 [] pc = "save" -> 1 [] pc = "run" -> 2 [] pc = "name" -> 3 [] pc = "open" -> 4 [] pc = "write" -> 5 [] pc = "set" -> 6

\* C9: a predict request is one attempt: it moves through the steps of the
\* code in order, one at a time, on the inputs it arrived with, and is
\* never taken up again; it ends once, in one terminal state, having
\* invoked the model at most once; a request whose model invocation raises
\* ends in InferenceError, and the step that ends it so writes no file and
\* leaves every session as it was.
C9_OneAttemptOneOutcome ==
  [][/\ \A s \in Sessions : req'[s] # req[s]
          => \/ (req[s] = Idle /\ Position(req'[s].pc) = 1)
             \/ (req[s] # Idle /\ Position(req'[s].pc) = Position(req[s].pc) + 1 /\ req'[s].upload = req[s].upload /\ req'[s].raises = req[s].raises /\ req'[s].sess = req[s].sess)
             \/ (req[s] # Idle /\ req'[s] = Idle /\ last'.sid = s /\ last'.upload = req[s].upload)
     /\ last'.kind # "None" => (last'.kind \in Terminal /\ last'.calls \in {0, 1} /\ req'[last'.sid] = Idle)
     /\ (last'.kind # "None" /\ last'.calls = 1 /\ last'.raises) => last'.kind = "InferenceError"
     /\ last'.kind = "InferenceError" => (last'.calls = 1 /\ last'.pred = None /\ ~last'.wrote /\ cookie' = cookie /\ files' = files)]_vars

C9_Witness ==
  /\ last.kind = "InferenceError"
  /\ last.raises
  /\ \E s \in Sessions : req[s].pc = "set"

\* C10: without a feature-column list, a request with a parsed upload ends
\* in FeatureCountMismatch(expected, actual) without invoking the model when
\* the model's feature count is known and differs from the working table's
\* column count; otherwise the table it passes to the model is the working
\* table as uploaded (same columns, same order, same values).
C10_DegradedMode ==
  (Parsed(last) /\ last.kind # "UnsupportedFormat" /\ model # None /\ target_cols # None /\ ~HasFeatureCols)
  => IF CountMismatch(model[1].n_features_in_, Len(Working(last).columns))
     THEN /\ last.kind = "FeatureCountMismatch"
          /\ last.count = <<model[1].n_features_in_[1], Len(Working(last).columns)>>
          /\ last.calls = 0
     ELSE last.X # None => last.X[1] = Working(last)

====
